---- MODULE Spec2Model ----
(***************************************************************************)
(* A model of DBI_watcher (src/main.py): the pure functions parse_assets   *)
(* and render_config_ini over real strings, and main() as a step machine   *)
(* over the three files it touches (the language map, the state file and   *)
(* the output directory), with process death possible between any two      *)
(* steps.                                                                  *)
(***************************************************************************)
EXTENDS Integers, Sequences, FiniteSets, TLC

VARIABLES
    langFile,    \* the --languages file: <<>> when missing, else <<dict>>
    stateFile,   \* the --state-file: <<>> when missing, else <<payload>>
    outdir,      \* the --output-dir path: [kind, entries]
    clock,       \* datetime.now(), as a counter of runs started
    pc,          \* where main() is: "idle" between runs
    args,        \* argparse's namespace: [force]
    frame,       \* main()'s local variables
    exit,        \* the process's exit status, <<>> while it runs
    stderr,      \* what the run printed to the error stream (its kind)
    start,       \* history: the files as they were when the run started
    prev,        \* history: how the previous run ended
    call,        \* harness of the pure functions: the arguments
    ret          \* harness of the pure functions: the result

vars == <<langFile, stateFile, outdir, clock, pc, args, frame, exit, stderr,
          start, prev, call, ret>>

(***************************************************************************)
(* Bounds of the model.                                                    *)
(***************************************************************************)
MaxAssets == 3      \* longest asset list handed to parse_assets
MaxLangs == 3       \* longest code list handed to render_config_ini
MaxRuns == 2        \* runs of main() in one behaviour

(***************************************************************************)
(* Python values: None, and strings with the str methods the code uses.    *)
(***************************************************************************)
None == <<>>
Some(v) == <<v>>

Get(d, k, default) == IF k \in DOMAIN d THEN d[k] ELSE default

Char(s, i) == SubSeq(s, i, i)

UPPER == "ABCDEFGHIJKLMNOPQRSTUVWXYZ"
LOWER == "abcdefghijklmnopqrstuvwxyz"

\* The characters of the model in code point order: str comparison is by
\* code point.
ORDER == "\n -./0123456789:;ABCDEFGHIJKLMNOPQRSTUVWXYZ[]_abcdefghijklmnopqrstuvwxyzßç"

IndexIn(table, c) == CHOOSE i \in 1..Len(table) : Char(table, i) = c

CharsOf(table) == {Char(table, i) : i \in 1..Len(table)}

\* The code point rank of each character of the model.
CodeTable == [c \in CharsOf(ORDER) |-> IndexIn(ORDER, c)]

Code(c) == IF c \in DOMAIN CodeTable THEN CodeTable[c] ELSE 0

\* The lower-case letter of each upper-case letter.
LowerTable == [c \in CharsOf(UPPER) |-> Char(LOWER, IndexIn(UPPER, c))]

LowerChar(c) == IF c \in DOMAIN LowerTable THEN LowerTable[c] ELSE c

RECURSIVE Lower(_)
Lower(s) == IF s = "" THEN "" ELSE LowerChar(Char(s, 1)) \o Lower(Tail(s))

\* str.casefold(): lower-casing, and the full case folding of sharp s.
RECURSIVE CaseFold(_)
CaseFold(s) ==
    IF s = "" THEN ""
    ELSE (IF Char(s, 1) = "ß" THEN "ss" ELSE LowerChar(Char(s, 1)))
         \o CaseFold(Tail(s))

StartsWith(s, p) == Len(s) >= Len(p) /\ SubSeq(s, 1, Len(p)) = p

EndsWith(s, p) ==
    Len(s) >= Len(p) /\ SubSeq(s, Len(s) - Len(p) + 1, Len(s)) = p

\* a < b for str: the first differing code point decides, a proper prefix
\* is smaller.
RECURSIVE StrLess(_, _)
StrLess(a, b) ==
    IF b = "" THEN FALSE
    ELSE IF a = "" THEN TRUE
    ELSE IF Char(a, 1) = Char(b, 1) THEN StrLess(Tail(a), Tail(b))
    ELSE Code(Char(a, 1)) < Code(Char(b, 1))

\* s.split(sep) for a one-character separator.
RECURSIVE SplitFrom(_, _, _)
SplitFrom(s, sep, cur) ==
    IF s = "" THEN <<cur>>
    ELSE IF Char(s, 1) = sep THEN <<cur>> \o SplitFrom(Tail(s), sep, "")
    ELSE SplitFrom(Tail(s), sep, cur \o Char(s, 1))

Split(s, sep) == SplitFrom(s, sep, "")

WHITESPACE == {" ", "\n", "\t", "\r", "\f"}

RECURSIVE RStrip(_)
RStrip(s) ==
    IF s # "" /\ Char(s, Len(s)) \in WHITESPACE
    THEN RStrip(SubSeq(s, 1, Len(s) - 1))
    ELSE s

RECURSIVE Join(_, _)
Join(sep, items) ==
    IF items = <<>> THEN ""
    ELSE IF Len(items) = 1 THEN items[1]
    ELSE items[1] \o sep \o Join(sep, Tail(items))

\* list.sort() of a list of str: a stable sort, here by insertion.
RECURSIVE InsertStr(_, _)
InsertStr(sorted, x) ==
    IF sorted = <<>> THEN <<x>>
    ELSE IF StrLess(x, Head(sorted)) THEN <<x>> \o sorted
    ELSE <<Head(sorted)>> \o InsertStr(Tail(sorted), x)

RECURSIVE SortStr(_)
SortStr(items) ==
    IF items = <<>> THEN <<>>
    ELSE InsertStr(SortStr(SubSeq(items, 1, Len(items) - 1)),
                   items[Len(items)])

\* What a call does: return a value, or raise.
Return(v) == [how |-> "return", value |-> v]
Raise(type, message) == [how |-> "raise", type |-> type, msg |-> message]

(***************************************************************************)
(* Module constants.                                                       *)
(***************************************************************************)
FILE_HEADER == ";LANGUAGES\n\n"

CONFIG_FILENAME == "config.ini"

\* ENTRY_TEMPLATE.format(lang_long=..., version=..., lang_short=...)
ENTRY_TEMPLATE(lang_long, version, lang_short) ==
    "[" \o lang_long \o "]\n"
    \o "catch_errors\n"
    \o "download https://github.com/rashevskyv/DBIPatcher/releases/latest/download/DBI."
    \o version \o "." \o lang_short \o ".nro /switch/DBI/DBI_new.nro\n"
    \o "mv /switch/DBI/DBI_new.nro /switch/DBI/DBI.nro\n"

(***************************************************************************)
(* parse_assets                                                            *)
(***************************************************************************)
AssetName(asset) == Get(asset, "name", "")

\* A variant of HasPrefixAndSuffix that forgets the prefix.
HasSuffixOnly(lower_name) == EndsWith(lower_name, ".nro")

\* The first filter of the loop, on the lower-cased name.
HasPrefixAndSuffix(lower_name) ==
    StartsWith(lower_name, "dbi.") /\ EndsWith(lower_name, ".nro")

\* A variant of HasFourParts that lets longer names through.
HasFourPartsOrMore(parts) == Len(parts) >= 4

\* The second filter of the loop, on the segments of the name as it is.
HasFourParts(parts) == Len(parts) = 4

InconsistentMessage(version, asset_version, name) ==
    "Inconsistent versions in assets: expected " \o version \o ", got "
    \o asset_version \o " from " \o name

NO_ASSETS_MESSAGE == "No DBI assets found in the latest release"

\* A variant of ParseFinish that leaves the codes in the order of the assets.
ParseFinishUnsorted(version, languages) ==
    IF version = None \/ languages = <<>>
    THEN Raise("ValueError", NO_ASSETS_MESSAGE)
    ELSE Return(<<version[1], languages>>)

\* The end of parse_assets, after the loop.
ParseFinish(version, languages) ==
    IF version = None \/ languages = <<>>
    THEN Raise("ValueError", NO_ASSETS_MESSAGE)
    ELSE Return(<<version[1], SortStr(languages)>>)

\* The loop goes on to the next asset with these locals.
Continue(version, languages) ==
    [how |-> "continue", version |-> version, languages |-> languages]

\* A variant of ParseStep that keeps the first version and never compares.
ParseStepFirstVersionWins(asset, version, languages) ==
    LET name == AssetName(asset)
        parts == Split(name, ".")
    IN  IF ~HasPrefixAndSuffix(Lower(name))
        THEN Continue(version, languages)
        ELSE IF ~HasFourParts(parts) THEN Continue(version, languages)
        ELSE IF version = None
        THEN Continue(Some(parts[2]), Append(languages, parts[3]))
        ELSE Continue(version, Append(languages, parts[3]))

\* The body of the loop of parse_assets for one asset.
ParseStep(asset, version, languages) ==
    LET name == AssetName(asset)
        lower_name == Lower(name)
        parts == Split(name, ".")
    IN  IF ~HasPrefixAndSuffix(lower_name)
        THEN Continue(version, languages)
        ELSE IF ~HasFourParts(parts)
        THEN Continue(version, languages)
        ELSE IF version = None
        THEN Continue(Some(parts[2]), Append(languages, parts[3]))
        ELSE IF version[1] # parts[2]
        THEN Raise("ValueError",
                   InconsistentMessage(version[1], parts[2], name))
        ELSE Continue(version, Append(languages, parts[3]))

\* The loop of parse_assets over the assets left, with its two locals.
RECURSIVE ParseLoop(_, _, _)
ParseLoop(assets, version, languages) ==
    IF assets = <<>> THEN ParseFinish(version, languages)
    ELSE LET step == ParseStep(Head(assets), version, languages)
         IN  IF step.how = "raise" THEN step
             ELSE ParseLoop(Tail(assets), step.version, step.languages)

parse_assets(assets) == ParseLoop(assets, None, <<>>)

(***************************************************************************)
(* render_config_ini                                                       *)
(***************************************************************************)
\* One element of `rendered`: (long_name.casefold(), lang_code, block).
RenderedItem(version, lang_code, lang_map) ==
    LET long_name == Get(lang_map, lang_code, lang_code)
    IN  <<CaseFold(long_name), lang_code,
          RStrip(ENTRY_TEMPLATE(long_name, version, lang_code))>>

\* The sort key (item[0], item[1]), compared as tuples of str.
RenderKeyLess(a, b) ==
    \/ StrLess(a[1], b[1])
    \/ a[1] = b[1] /\ StrLess(a[2], b[2])

\* A variant of SortRendered that sorts by item[0] alone.
RECURSIVE InsertByName(_, _)
InsertByName(sorted, x) ==
    IF sorted = <<>> THEN <<x>>
    ELSE IF StrLess(x[1], Head(sorted)[1]) THEN <<x>> \o sorted
    ELSE <<Head(sorted)>> \o InsertByName(Tail(sorted), x)

RECURSIVE SortRenderedByName(_)
SortRenderedByName(rendered) ==
    IF rendered = <<>> THEN <<>>
    ELSE InsertByName(SortRenderedByName(SubSeq(rendered, 1, Len(rendered) - 1)),
                      rendered[Len(rendered)])

\* rendered.sort(key=lambda item: (item[0], item[1])): stable, by insertion.
RECURSIVE InsertRendered(_, _)
InsertRendered(sorted, x) ==
    IF sorted = <<>> THEN <<x>>
    ELSE IF RenderKeyLess(x, Head(sorted)) THEN <<x>> \o sorted
    ELSE <<Head(sorted)>> \o InsertRendered(Tail(sorted), x)

RECURSIVE SortRenderedLoop(_)
SortRenderedLoop(rendered) ==
    IF rendered = <<>> THEN <<>>
    ELSE InsertRendered(SortRenderedLoop(SubSeq(rendered, 1, Len(rendered) - 1)),
                        rendered[Len(rendered)])

SortRendered(rendered) == SortRenderedLoop(rendered)

render_config_ini(version, languages, lang_map) ==
    LET rendered == SortRendered(
            [i \in 1..Len(languages) |->
                RenderedItem(version, languages[i], lang_map)])
        blocks == <<RStrip(FILE_HEADER)>>
                  \o [i \in 1..Len(rendered) |-> rendered[i][3]]
        ordered_codes == [i \in 1..Len(rendered) |-> rendered[i][2]]
        joined == Join("\n\n", blocks)
        content == IF ~EndsWith(joined, "\n") THEN joined \o "\n" ELSE joined
    IN  <<content, ordered_codes>>

(***************************************************************************)
(* Files.                                                                  *)
(***************************************************************************)
EmptyDict == <<>>

Missing == <<>>
FileOf(content) == <<content>>

\* load_json: {} for a path that does not exist, else the parsed content.
load_json(file) == IF file = Missing THEN EmptyDict ELSE file[1]

\* save_json: the whole file is replaced by the payload.
save_json(payload) == FileOf(payload)

File(text) == [kind |-> "file", text |-> text]
Dir == [kind |-> "dir", text |-> ""]
\* A symbolic link to a directory: is_dir() follows it, rmtree refuses it.
SymlinkToDir == [kind |-> "symlink_dir", text |-> ""]

Absent == [kind |-> "absent", entries |-> EmptyDict]
DirWith(entries) == [kind |-> "dir", entries |-> entries]

WithEntry(entries, name, entry) ==
    [n \in DOMAIN entries \cup {name} |->
        IF n = name THEN entry ELSE entries[n]]

WithoutEntry(entries, name) ==
    [n \in DOMAIN entries \ {name} |-> entries[n]]

\* Path.mkdir(parents=True, exist_ok=True)
Mkdir(path) ==
    IF path.kind = "absent" THEN Return(DirWith(EmptyDict))
    ELSE IF path.kind = "dir" THEN Return(path)
    ELSE Raise("FileExistsError", "")

\* A variant of ClearEntry that unlinks files and leaves directories alone.
ClearEntryFilesOnly(path, name) ==
    IF path.entries[name].kind = "file"
    THEN Return(DirWith(WithoutEntry(path.entries, name)))
    ELSE Return(path)

\* One round of the loop of clear_output_dir, on the entry iterdir() gave.
ClearEntry(path, name) ==
    IF path.entries[name].kind = "dir"
    THEN Return(DirWith(WithoutEntry(path.entries, name)))
    ELSE IF path.entries[name].kind = "symlink_dir"
    THEN Raise("OSError", "Cannot call rmtree on a symbolic link")
    ELSE Return(DirWith(WithoutEntry(path.entries, name)))

\* config_path.write_text(config_content)
WriteConfig(path, config_content) ==
    DirWith(WithEntry(path.entries, CONFIG_FILENAME, File(config_content)))

\* The payload update_state builds and saves.
update_state(release_id, tag_name, version, languages, now_iso) ==
    save_json([last_release_id |-> release_id,
               last_tag |-> tag_name,
               last_version |-> version,
               languages |-> languages,
               updated_at |-> now_iso])

(***************************************************************************)
(* The world main() runs in: the language maps the user may supply, what   *)
(* the GitHub API may answer, and what may already be on disk.             *)
(***************************************************************************)
LangMapA == [en |-> "English", fr |-> "Français"]
LangMapB == [en |-> "Zulu"]

LangFiles == {Missing, FileOf(EmptyDict), FileOf(LangMapA), FileOf(LangMapB)}

Asset(name) == [name |-> name]

Release1 ==
    [id |-> 1, tag_name |-> "v123",
     assets |-> <<Asset("DBI.123.en.nro"), Asset("DBI.123.fr.nro")>>]
Release2 ==
    [id |-> 2,
     assets |-> <<Asset("dbi.124.fr.NRO"), Asset("Source code.zip"),
                  Asset("DBI.124.en.nro")>>]
ReleaseDotted ==
    [id |-> 3, tag_name |-> "v1.2.3",
     assets |-> <<Asset("DBI.1.2.3.en.nro"), Asset("DBI.1.2.3.fr.nro")>>]
\* Release1 after its assets were replaced: the id stays.
Release1Edited ==
    [id |-> 1, tag_name |-> "v123",
     assets |-> <<Asset("DBI.123.en.nro"), Asset("DBI.124.fr.nro")>>]
ReleaseNoId ==
    [tag_name |-> "v127", assets |-> <<Asset("DBI.127.en.nro")>>]
ReleaseNoAssets == [id |-> 4, tag_name |-> "v128"]

Releases ==
    {Release1, Release2, ReleaseDotted, Release1Edited, ReleaseNoId,
     ReleaseNoAssets}

\* fetch_latest_release: the JSON of the answer, or what requests raises.
fetch_latest_release ==
    {Return(r) : r \in Releases}
    \cup {Raise("HTTPError", "404 Client Error"),
          Raise("ConnectTimeout", ""),
          Raise("ConnectionError", "")}

InitialOutdirs ==
    {Absent,
     [kind |-> "file", entries |-> EmptyDict],
     DirWith([n \in {"config.ini", "old"} |->
                 IF n = "old" THEN Dir ELSE File("stale")]),
     DirWith([n \in {"notes.txt", "link"} |->
                 IF n = "link" THEN SymlinkToDir ELSE File("notes")])}

\* The disk as an earlier, completed run on Release2 with LangMapA left it.
LeftByEarlierRun ==
    LET parsed == parse_assets(Release2.assets).value
        rendered == render_config_ini(parsed[1], parsed[2], LangMapA)
    IN  [stateFile |-> update_state(Release2.id, "dbi-" \o parsed[1],
                                    parsed[1], rendered[2], 0),
         outdir |-> WriteConfig(DirWith(EmptyDict), rendered[1])]

InitialDisks ==
    {[stateFile |-> Missing, outdir |-> o] : o \in InitialOutdirs}
    \cup {LeftByEarlierRun}

(***************************************************************************)
(* main()                                                                  *)
(***************************************************************************)
NoFrame ==
    [lang_map |-> None, state |-> None, fetched |-> None, release |-> None,
     release_id |-> None, version |-> None, languages |-> None,
     config_content |-> None, ordered_codes |-> None, release_tag |-> None,
     pending |-> None]

NoPrev == [at |-> "idle", exit |-> None, release |-> None]

\* The exit status of a process ended by SIGKILL, as the shell reports it.
Killed == Some(128 + 9)

\* main() is about to execute the step `label`.
At(label) == pc = label /\ exit = None

GetOpt(d, k) == IF k \in DOMAIN d THEN Some(d[k]) ELSE None

\* `return code` from main(), handed to sys.exit, with what went to stderr.
ReturnFromMain(code, message) ==
    /\ pc' = "done"
    /\ exit' = Some(code)
    /\ stderr' = message

\* An exception nothing catches leaves main(): the interpreter prints the
\* traceback and the process ends with status 1.
Unhandled(type) == ReturnFromMain(1, "Traceback: " \o type)

Goto(label) == pc' = label /\ UNCHANGED <<exit, stderr>>

\* A variant of AlreadyProcessed that reads a key the state never has.
AlreadyProcessedWrongKey(state, release_id, force) ==
    GetOpt(state, "release_id") = release_id /\ ~force

\* The state.get("last_release_id") == release_id and not args.force test.
AlreadyProcessed(state, release_id, force) ==
    GetOpt(state, "last_release_id") = release_id /\ ~force

\* The process starts: argparse reads the flags; --languages names the file
\* the user supplies for this run.
StartRun(force, languages) ==
    /\ pc = "idle" \/ exit # None
    /\ clock < MaxRuns
    /\ clock' = clock + 1
    /\ pc' = "load_map"
    /\ args' = [force |-> force]
    /\ frame' = NoFrame
    /\ exit' = None
    /\ stderr' = ""
    /\ start' = [outdir |-> outdir, stateFile |-> stateFile]
    /\ prev' = [at |-> pc, exit |-> exit, release |-> frame.release]
    /\ langFile' = languages
    /\ UNCHANGED <<stateFile, outdir, call, ret>>

\* A variant of LoadLangMap without the check for an empty map.
LoadLangMapUnchecked ==
    /\ At("load_map")
    /\ frame' = [frame EXCEPT !.lang_map = load_json(langFile)]
    /\ Goto("load_state")
    /\ UNCHANGED <<langFile, stateFile, outdir, clock, args, start, prev,
                   call, ret>>

\* lang_map = load_json(args.languages); if not lang_map: return 1
LoadLangMap ==
    /\ At("load_map")
    /\ frame' = [frame EXCEPT !.lang_map = load_json(langFile)]
    /\ IF DOMAIN load_json(langFile) = {}
       THEN ReturnFromMain(1, "Language mapping file is empty or missing")
       ELSE Goto("load_state")
    /\ UNCHANGED <<langFile, stateFile, outdir, clock, args, start, prev,
                   call, ret>>

\* state = load_json(args.state_file)
LoadState ==
    /\ At("load_state")
    /\ frame' = [frame EXCEPT !.state = load_json(stateFile)]
    /\ Goto("fetch")
    /\ UNCHANGED <<langFile, stateFile, outdir, clock, args, start, prev,
                   call, ret>>

\* try: release = fetch_latest_release() except requests.HTTPError: return 1
Fetch(response) ==
    /\ At("fetch")
    /\ IF response.how = "return"
       THEN /\ frame' = [frame EXCEPT !.fetched = response,
                                      !.release = response.value]
            /\ Goto("release_id")
       ELSE /\ frame' = [frame EXCEPT !.fetched = response]
            /\ IF response.type = "HTTPError"
               THEN ReturnFromMain(1, "Failed to query GitHub releases: "
                                      \o response.msg)
               ELSE Unhandled(response.type)
    /\ UNCHANGED <<langFile, stateFile, outdir, clock, args, start, prev,
                   call, ret>>

\* release_id = release.get("id"); if release_id is None: return 1
ReleaseId ==
    /\ At("release_id")
    /\ frame' = [frame EXCEPT !.release_id = GetOpt(frame.release, "id")]
    /\ IF GetOpt(frame.release, "id") = None
       THEN ReturnFromMain(1, "Latest release payload does not contain an id")
       ELSE Goto("compare")
    /\ UNCHANGED <<langFile, stateFile, outdir, clock, args, start, prev,
                   call, ret>>

\* if state.get("last_release_id") == release_id and not args.force: return 0
Compare ==
    /\ At("compare")
    /\ IF AlreadyProcessed(frame.state, frame.release_id, args.force)
       THEN ReturnFromMain(0, "")
       ELSE Goto("parse")
    /\ UNCHANGED <<langFile, stateFile, outdir, clock, args, frame, start,
                   prev, call, ret>>

\* try: version, languages = parse_assets(...) except ValueError: return 1
Parse ==
    /\ At("parse")
    /\ LET parsed == parse_assets(Get(frame.release, "assets", <<>>))
       IN  IF parsed.how = "raise"
           THEN /\ ReturnFromMain(1, parsed.msg)
                /\ UNCHANGED frame
           ELSE /\ frame' = [frame EXCEPT !.version = parsed.value[1],
                                          !.languages = parsed.value[2]]
                /\ Goto("render")
    /\ UNCHANGED <<langFile, stateFile, outdir, clock, args, start, prev,
                   call, ret>>

\* config_content, ordered_codes = render_config_ini(...);
\* release_tag = release.get("tag_name", f"dbi-{version}")
Render ==
    /\ At("render")
    /\ LET rendered == render_config_ini(frame.version, frame.languages,
                                         frame.lang_map)
       IN  frame' = [frame EXCEPT
                        !.config_content = rendered[1],
                        !.ordered_codes = rendered[2],
                        !.release_tag = Get(frame.release, "tag_name",
                                            "dbi-" \o frame.version)]
    /\ Goto("mkdir")
    /\ UNCHANGED <<langFile, stateFile, outdir, clock, args, start, prev,
                   call, ret>>

\* args.output_dir.mkdir(parents=True, exist_ok=True)
MakeOutputDir ==
    /\ At("mkdir")
    /\ IF Mkdir(outdir).how = "raise"
       THEN /\ Unhandled(Mkdir(outdir).type)
            /\ UNCHANGED outdir
       ELSE /\ outdir' = Mkdir(outdir).value
            /\ Goto("clear")
    /\ UNCHANGED <<langFile, stateFile, clock, args, frame, start, prev,
                   call, ret>>

\* clear_output_dir: iterdir() lists the directory, in no particular order.
ClearBegin ==
    /\ At("clear")
    /\ frame.pending = None
    /\ frame' = [frame EXCEPT !.pending = Some(DOMAIN outdir.entries)]
    /\ Goto("clear")
    /\ UNCHANGED <<langFile, stateFile, outdir, clock, args, start, prev,
                   call, ret>>

\* clear_output_dir: one round of the loop, on any entry not yet visited.
ClearNext ==
    /\ At("clear")
    /\ frame.pending # None
    /\ \E name \in frame.pending[1] :
          /\ frame' = [frame EXCEPT !.pending = Some(@[1] \ {name})]
          /\ IF ClearEntry(outdir, name).how = "raise"
             THEN /\ Unhandled(ClearEntry(outdir, name).type)
                  /\ UNCHANGED outdir
             ELSE /\ outdir' = ClearEntry(outdir, name).value
                  /\ Goto("clear")
    /\ UNCHANGED <<langFile, stateFile, clock, args, start, prev, call, ret>>

\* clear_output_dir: the loop has visited every entry.
ClearEnd ==
    /\ At("clear")
    /\ frame.pending = Some({})
    /\ Goto("write_config")
    /\ UNCHANGED <<langFile, stateFile, outdir, clock, args, frame, start,
                   prev, call, ret>>

\* config_path.write_text(config_content, encoding="utf-8")
WriteConfigIni ==
    /\ At("write_config")
    /\ outdir' = WriteConfig(outdir, frame.config_content)
    /\ Goto("update_state")
    /\ UNCHANGED <<langFile, stateFile, clock, args, frame, start, prev,
                   call, ret>>

\* A variant of UpdateState that saves the codes in the order parse_assets
\* returned them.
UpdateStateWithParsedOrder ==
    /\ At("update_state")
    /\ stateFile' = update_state(frame.release_id[1], frame.release_tag,
                                 frame.version, frame.languages, clock)
    /\ Goto("report")
    /\ UNCHANGED <<langFile, outdir, clock, args, frame, start, prev,
                   call, ret>>

\* update_state(args.state_file, release_id, release_tag, version,
\*              ordered_codes)
UpdateState ==
    /\ At("update_state")
    /\ stateFile' = update_state(frame.release_id[1], frame.release_tag,
                                 frame.version, frame.ordered_codes, clock)
    /\ Goto("report")
    /\ UNCHANGED <<langFile, outdir, clock, args, frame, start, prev,
                   call, ret>>

\* The three prints, and return 0.
Report ==
    /\ At("report")
    /\ ReturnFromMain(0, "")
    /\ UNCHANGED <<langFile, stateFile, outdir, clock, args, frame, start,
                   prev, call, ret>>

\* The steps from the first write to the disk on: a process that dies before
\* them leaves the disk as it found it.
KillPoints == {"mkdir", "clear", "write_config", "update_state", "report"}

\* The process is killed (or the machine stops) before its next step.
Kill ==
    /\ pc \in KillPoints
    /\ exit = None
    /\ exit' = Killed
    /\ UNCHANGED <<langFile, stateFile, outdir, clock, pc, args, frame,
                   stderr, start, prev, call, ret>>

NoCall == [fn |-> ""]

Init ==
    /\ langFile = Missing
    /\ \E disk \in InitialDisks :
          /\ stateFile = disk.stateFile
          /\ outdir = disk.outdir
    /\ clock = 0
    /\ pc = "idle"
    /\ args = [force |-> FALSE]
    /\ frame = NoFrame
    /\ exit = None
    /\ stderr = ""
    /\ start = [outdir |-> outdir, stateFile |-> stateFile]
    /\ prev = NoPrev
    /\ call = NoCall
    /\ ret = None

Next ==
    \/ \E force \in BOOLEAN, languages \in LangFiles :
          StartRun(force, languages)
    \/ LoadLangMap
    \/ LoadState
    \/ \E response \in fetch_latest_release : Fetch(response)
    \/ ReleaseId
    \/ Compare
    \/ Parse
    \/ Render
    \/ MakeOutputDir
    \/ ClearBegin
    \/ ClearNext
    \/ ClearEnd
    \/ WriteConfigIni
    \/ UpdateState
    \/ Report
    \/ Kill

Spec == Init /\ [][Next]_vars

(***************************************************************************)
(* parse_assets and render_config_ini on their own: the arguments are      *)
(* drawn at the start, one step makes the call.                            *)
(***************************************************************************)
MainIdle ==
    /\ langFile = Missing
    /\ stateFile = Missing
    /\ outdir = Absent
    /\ clock = 0
    /\ pc = "idle"
    /\ args = [force |-> FALSE]
    /\ frame = NoFrame
    /\ exit = None
    /\ stderr = ""
    /\ start = [outdir |-> outdir, stateFile |-> stateFile]
    /\ prev = NoPrev

AssetPool ==
    {Asset("DBI.810.en.nro"),      \* the shape the releases use
     Asset("dbi.810.fr.NRO"),      \* prefix and extension in another case
     Asset("DBI.810.EN.nro"),      \* a code that sorts before the lower-case ones
     Asset("DBI.811.en.nro"),      \* another version
     Asset("DBI..de.nro"),         \* an empty version segment
     Asset("DBI.1.2.3.en.nro"),    \* six segments
     Asset("DBI.nro"),             \* two segments
     Asset("DBI.810.ru.zip"),      \* another extension
     Asset("XDBI.812.en.nro"),     \* another prefix
     [size |-> 1]}                 \* no name at all

AssetLists == UNION {[1..n -> AssetPool] : n \in 0..MaxAssets}

InitParse ==
    /\ MainIdle
    /\ call \in {[fn |-> "parse_assets", assets |-> a] : a \in AssetLists}
    /\ ret = None

CallParseAssets ==
    /\ call.fn = "parse_assets"
    /\ ret = None
    /\ ret' = Some(parse_assets(call.assets))
    /\ UNCHANGED <<langFile, stateFile, outdir, clock, pc, args, frame, exit,
                   stderr, start, prev, call>>

SpecParse == InitParse /\ [][CallParseAssets]_vars

LangMapC ==
    [en |-> "English", EN |-> "english", fr |-> "Français",
     de |-> "Straße"]

CodePool == {"en", "EN", "fr", "de", "st"}

CodeLists == UNION {[1..n -> CodePool] : n \in 0..MaxLangs}

InitRender ==
    /\ MainIdle
    /\ call \in {[fn |-> "render_config_ini", version |-> v,
                  languages |-> l, lang_map |-> m] :
                    v \in {"810"}, l \in CodeLists,
                    m \in {LangMapA, LangMapB, LangMapC}}
    /\ ret = None

CallRenderConfigIni ==
    /\ call.fn = "render_config_ini"
    /\ ret = None
    /\ ret' = Some(render_config_ini(call.version, call.languages,
                                     call.lang_map))
    /\ UNCHANGED <<langFile, stateFile, outdir, clock, pc, args, frame, exit,
                   stderr, start, prev, call>>

SpecRender == InitRender /\ [][CallRenderConfigIni]_vars

(***************************************************************************)
(* Properties of parse_assets (under SpecParse).                           *)
(***************************************************************************)
\* A qualifying name, as the contract words it: the lower-cased name starts
\* with "dbi." and ends with ".nro", and the name splits on "." into exactly
\* four segments.
Qualifies(asset) ==
    LET name == AssetName(asset)
    IN  /\ StartsWith(Lower(name), "dbi.")
        /\ EndsWith(Lower(name), ".nro")
        /\ Len(Split(name, ".")) = 4

VersionOf(asset) == Split(AssetName(asset), ".")[2]
CodeOf(asset) == Split(AssetName(asset), ".")[3]

ParseCalled == call.fn = "parse_assets" /\ ret # None

QualifyingAt == {i \in DOMAIN call.assets : Qualifies(call.assets[i])}

IsConsistencyError(result) ==
    /\ result.how = "raise"
    /\ result.type = "ValueError"
    /\ StartsWith(result.msg, "Inconsistent versions in assets: ")

IsNoAssetsError(result) ==
    /\ result.how = "raise"
    /\ result.type = "ValueError"
    /\ result.msg = "No DBI assets found in the latest release"

\* C3: an asset list holding two qualifying names whose version segments
\* differ makes parse_assets fail with the consistency error, wherever the
\* two stand and whatever surrounds them; it never returns a result.
C3_DifferentVersionsRaise ==
    (/\ ParseCalled
     /\ \E i, j \in QualifyingAt :
           VersionOf(call.assets[i]) # VersionOf(call.assets[j]))
    => IsConsistencyError(ret[1])

\* C3's case: two qualifying names of different versions, the second one
\* last, with a non-qualifying name between them, and the call has failed.
C3_Witness ==
    /\ ParseCalled
    /\ Len(call.assets) = 3
    /\ QualifyingAt = {1, 3}
    /\ VersionOf(call.assets[1]) # VersionOf(call.assets[3])
    /\ IsConsistencyError(ret[1])

\* C4: an asset list with no qualifying name (the empty list, or names with a
\* wrong prefix, a wrong extension or a segment count other than four) makes
\* parse_assets fail with the no-assets error, never the consistency error.
C4_NoQualifyingRaisesNoAssets ==
    (ParseCalled /\ QualifyingAt = {}) => IsNoAssetsError(ret[1])

\* C4's case: a list of three malformed names, one with six segments and one
\* with a foreign prefix, and the call has failed with the no-assets error.
C4_Witness ==
    /\ ParseCalled
    /\ Len(call.assets) = 3
    /\ QualifyingAt = {}
    /\ \E i \in 1..3 : Len(Split(AssetName(call.assets[i]), ".")) = 6
    /\ \E i \in 1..3 : /\ Len(Split(AssetName(call.assets[i]), ".")) = 4
                       /\ ~StartsWith(Lower(AssetName(call.assets[i])), "dbi.")
    /\ IsNoAssetsError(ret[1])

CountIn(seq, x) == Cardinality({i \in DOMAIN seq : seq[i] = x})

Ascending(codes) ==
    \A i, j \in DOMAIN codes : i < j => ~StrLess(codes[j], codes[i])

\* C5: when at least one name qualifies and all qualifying names share the
\* version V, parse_assets returns V with the codes of the qualifying assets
\* and of no other, one entry per qualifying asset (duplicates kept), in
\* ascending order.
C5_SharedVersionReturnsSortedCodes ==
    (/\ ParseCalled
     /\ QualifyingAt # {}
     /\ \A i, j \in QualifyingAt :
           VersionOf(call.assets[i]) = VersionOf(call.assets[j]))
    => /\ ret[1].how = "return"
       /\ \A i \in QualifyingAt : ret[1].value[1] = VersionOf(call.assets[i])
       /\ Len(ret[1].value[2]) = Cardinality(QualifyingAt)
       /\ \A i \in QualifyingAt :
             CountIn(ret[1].value[2], CodeOf(call.assets[i]))
             = Cardinality({j \in QualifyingAt :
                               CodeOf(call.assets[j]) = CodeOf(call.assets[i])})
       /\ Ascending(ret[1].value[2])

\* C5's case: three qualifying assets of one version, two of them with the
\* same code, given in descending order of their codes; both copies of the
\* code are returned.
C5_Witness ==
    /\ ParseCalled
    /\ QualifyingAt = {1, 2, 3}
    /\ StrLess(CodeOf(call.assets[3]), CodeOf(call.assets[1]))
    /\ CodeOf(call.assets[1]) = CodeOf(call.assets[2])
    /\ ret[1].how = "return"
    /\ CountIn(ret[1].value[2], CodeOf(call.assets[1])) = 2

(***************************************************************************)
(* Properties of render_config_ini (under SpecRender).                     *)
(***************************************************************************)
RenderCalled == call.fn = "render_config_ini" /\ ret # None

Reorderings(seq) ==
    {[i \in DOMAIN seq |-> seq[p[i]]] :
        p \in {q \in [DOMAIN seq -> DOMAIN seq] :
                  \A i, j \in DOMAIN seq : i # j => q[i] # q[j]}}

\* The display name of a code: the code itself when the map misses it.
DisplayName(lang_map, code) ==
    IF code \in DOMAIN lang_map THEN lang_map[code] ELSE code

\* (case-folded display name, code) of a is not after that of b.
InEmittedOrder(lang_map, a, b) ==
    LET na == CaseFold(DisplayName(lang_map, a))
        nb == CaseFold(DisplayName(lang_map, b))
    IN  \/ StrLess(na, nb)
        \/ na = nb /\ ~StrLess(b, a)

\* C6: render_config_ini returns the same text and the same emitted codes for
\* every permutation of the codes it is given, and the emitted order is
\* ascending by (case-folded display name, code), the display name of a code
\* missing from the map being the code.
C6_RenderIgnoresInputOrder ==
    RenderCalled
    => /\ \A other \in Reorderings(call.languages) :
             render_config_ini(call.version, other, call.lang_map) = ret[1]
       /\ \A i, j \in DOMAIN ret[1][2] :
             i < j => InEmittedOrder(call.lang_map, ret[1][2][i], ret[1][2][j])

\* C6's case: three different codes, one of them missing from the map and two
\* whose display names are equal once case-folded, given in an order that is
\* not the emitted one.
C6_Witness ==
    /\ RenderCalled
    /\ Len(call.languages) = 3
    /\ \E i \in 1..3 : call.languages[i] \notin DOMAIN call.lang_map
    /\ \E i, j \in 1..3 :
          /\ call.languages[i] # call.languages[j]
          /\ CaseFold(DisplayName(call.lang_map, call.languages[i]))
             = CaseFold(DisplayName(call.lang_map, call.languages[j]))
    /\ ret[1][2] # call.languages

(***************************************************************************)
(* Properties of main() (under Spec).                                      *)
(***************************************************************************)
\* last_release_id of the state file as the run found it, None without one.
StoredIdAtStart == GetOpt(load_json(start.stateFile), "last_release_id")

DiskUntouched == outdir = start.outdir /\ stateFile = start.stateFile

\* The run has fetched a release with an id and is not on the
\* already-processed path: the id is new, or --force is set.
Processing ==
    /\ frame.release_id # None
    /\ pc # "compare"
    /\ args.force \/ StoredIdAtStart # frame.release_id

\* C1: a run whose fetched release id equals the stored last_release_id, with
\* --force not set, exits 0 and writes nothing: the output directory and the
\* state file stay as the run found them, whatever the assets of the release.
C1_UnchangedReleaseIsNoOp ==
    (/\ frame.release_id # None
     /\ frame.release_id = StoredIdAtStart
     /\ ~args.force)
    => /\ DiskUntouched
       /\ pc \in {"compare", "done"}
       /\ pc = "done" => exit = Some(0)

\* C1's case: the state file records release 1, the API answers release 1
\* with assets that no longer parse, --force is not set, and the run has
\* ended with status 0 next to an output directory that holds a config.ini.
C1_Witness ==
    /\ pc = "done"
    /\ exit = Some(0)
    /\ ~args.force
    /\ frame.release = Release1Edited
    /\ frame.release_id = StoredIdAtStart
    /\ outdir.kind = "dir"
    /\ DOMAIN outdir.entries = {CONFIG_FILENAME}

HasInconsistentVersions(release) ==
    LET assets == Get(release, "assets", <<>>)
        q == {i \in DOMAIN assets : Qualifies(assets[i])}
    IN  \E i, j \in q : VersionOf(assets[i]) # VersionOf(assets[j])

HasNoQualifyingAsset(release) ==
    LET assets == Get(release, "assets", <<>>)
    IN  \A i \in DOMAIN assets : ~Qualifies(assets[i])

\* The run has hit one of the fatal errors: the language map is missing or
\* empty; the request failed (a failure status, a timeout, a connection
\* error); the payload has no id; the assets being parsed are inconsistent
\* or none qualifies.
HitFatalError ==
    \/ pc \in {"load_state", "fetch", "release_id", "compare", "parse",
               "render", "mkdir", "clear", "write_config", "update_state",
               "report", "done"}
       /\ DOMAIN load_json(langFile) = {}
    \/ frame.fetched # None /\ frame.fetched.how = "raise"
    \/ /\ frame.release # None
       /\ pc # "release_id"
       /\ "id" \notin DOMAIN frame.release
    \/ /\ Processing
       /\ pc # "parse"
       /\ \/ HasInconsistentVersions(frame.release)
          \/ HasNoQualifyingAsset(frame.release)

\* C2: a run that hits a fatal error, with or without --force, ends with exit
\* status 1, a message on the error stream and no partial output: the output
\* directory is neither created nor cleared, config.ini is not written and
\* the state file is unchanged.
C2_FatalErrorsExitOneWithoutWrites ==
    HitFatalError
    => /\ pc = "done"
       /\ exit = Some(1)
       /\ stderr # ""
       /\ DiskUntouched

\* C2's case: a forced run over an existing state file and output directory
\* whose request timed out, which nothing in main() catches, has ended.
C2_Witness ==
    /\ pc = "done"
    /\ args.force
    /\ frame.fetched = Raise("ConnectTimeout", "")
    /\ start.stateFile # Missing
    /\ start.outdir.kind = "dir"
    /\ exit = Some(1)

\* What a run that processes `release` with `lang_map` and is not interrupted
\* leaves in the output directory, computed from the release alone.
ExpectedOutdir(release, lang_map) ==
    LET parsed == parse_assets(Get(release, "assets", <<>>)).value
    IN  DirWith([n \in {"config.ini"} |->
                    File(render_config_ini(parsed[1], parsed[2],
                                           lang_map)[1])])

\* C9: after a run that exits 0 through the processing path (a new release
\* id, or --force), the output directory exists and holds exactly one entry,
\* config.ini, with the text rendered in that run; whatever the directory
\* held before is gone, whether it existed or not.
C9_OutputDirHoldsOnlyConfigIni ==
    (pc = "done" /\ exit = Some(0) /\ Processing)
    => /\ outdir = ExpectedOutdir(frame.release, frame.lang_map)
       /\ outdir.entries[CONFIG_FILENAME].text = frame.config_content

\* C9's case: the run found an output directory holding a stale config.ini
\* and a subdirectory, processed a release and exited 0.
C9_Witness ==
    /\ pc = "done"
    /\ exit = Some(0)
    /\ Processing
    /\ start.outdir.kind = "dir"
    /\ \E n \in DOMAIN start.outdir.entries :
          start.outdir.entries[n].kind = "dir"
    /\ CONFIG_FILENAME \in DOMAIN start.outdir.entries
    /\ outdir # start.outdir

TwoBlockConfig(version) ==
    ";LANGUAGES\n\n"
    \o "[English]\ncatch_errors\n"
    \o "download https://github.com/rashevskyv/DBIPatcher/releases/latest/download/DBI."
    \o version \o ".en.nro /switch/DBI/DBI_new.nro\n"
    \o "mv /switch/DBI/DBI_new.nro /switch/DBI/DBI.nro\n\n"
    \o "[Français]\ncatch_errors\n"
    \o "download https://github.com/rashevskyv/DBIPatcher/releases/latest/download/DBI."
    \o version \o ".fr.nro /switch/DBI/DBI_new.nro\n"
    \o "mv /switch/DBI/DBI_new.nro /switch/DBI/DBI.nro\n"

\* The run processes `release` with the map {en: English, fr: Français} and
\* has got past parse_assets.
ExampleRun(release) ==
    /\ frame.release = release
    /\ frame.lang_map = LangMapA
    /\ Processing
    /\ pc # "parse"

\* C7 as stated: the release with the assets DBI.1.2.3.en.nro and
\* DBI.1.2.3.fr.nro, processed with the map {en: English, fr: Français}, is
\* parsed to version "1.2.3" with the emitted order [en, fr], and the run
\* writes a two-block config.ini whose URLs end in DBI.1.2.3.en.nro and
\* DBI.1.2.3.fr.nro.
C7_DottedVersionExample ==
    ExampleRun(ReleaseDotted)
    => /\ parse_assets(frame.release.assets)
             = Return(<<"1.2.3", <<"en", "fr">>>>)
       /\ frame.version = "1.2.3"
       /\ pc \notin {"render"} => frame.ordered_codes = <<"en", "fr">>
       /\ (pc = "done" /\ exit = Some(0))
          => outdir = DirWith([n \in {"config.ini"} |->
                                  File(TwoBlockConfig("1.2.3"))])

\* C7 amended: the dotted names split into six segments, so neither
\* qualifies and the run ends with the no-assets error, status 1 and nothing
\* written; the same release with the undotted version 123 is parsed to
\* version "123" with the emitted order [en, fr], and a run that exits 0
\* leaves a two-block config.ini whose URLs end in DBI.123.en.nro and
\* DBI.123.fr.nro.
C7_UndottedVersionExample ==
    /\ ExampleRun(ReleaseDotted)
       => /\ pc = "done"
          /\ exit = Some(1)
          /\ stderr = "No DBI assets found in the latest release"
          /\ DiskUntouched
    /\ ExampleRun(Release1)
       => /\ frame.version = "123"
          /\ pc \notin {"render"} => frame.ordered_codes = <<"en", "fr">>
          /\ (pc = "done" /\ exit = Some(0))
             => outdir = DirWith([n \in {"config.ini"} |->
                                     File(TwoBlockConfig("123"))])

\* C7's case: the dotted release was processed by the previous run, which
\* ended with status 1, and this run has processed the undotted one with the
\* same map and exited 0.
C7_Witness ==
    /\ prev.release = ReleaseDotted
    /\ prev.exit = Some(1)
    /\ ExampleRun(Release1)
    /\ pc = "done"
    /\ exit = Some(0)
    /\ start.stateFile = Missing

\* The fields of the state file, the timestamp left out.
StateFields(file) ==
    IF file = Missing THEN Missing
    ELSE FileOf([k \in DOMAIN file[1] \ {"updated_at"} |-> file[1][k]])

\* The state fields a run that processes `release` with `lang_map` and is
\* not interrupted leaves, computed from the release alone.
ExpectedStateFields(release, lang_map) ==
    LET parsed == parse_assets(Get(release, "assets", <<>>)).value
    IN  FileOf([last_release_id |-> release.id,
                last_tag |-> Get(release, "tag_name", "dbi-" \o parsed[1]),
                last_version |-> parsed[1],
                languages |-> render_config_ini(parsed[1], parsed[2],
                                                lang_map)[2]])

\* The process died after config.ini was written and before the state file
\* was.
KilledBeforeStateWrite == pc = "update_state" /\ exit = Killed

\* This run, without --force, has ended after fetching the very release the
\* previous run was processing when it died before its state write.
RerunAfterCrashEnded ==
    /\ prev.at = "update_state"
    /\ prev.exit = Killed
    /\ frame.release = prev.release
    /\ ~args.force
    /\ pc = "done"

\* C8: when a run processing release r dies after config.ini is written and
\* before the state file is, the state file holds its previous content, which
\* does not record r; the next run against r, without --force, does not take
\* the already-processed path but regenerates, and ends with the output
\* directory and the state fields an uninterrupted run would have left.
C8_CrashBeforeStateWriteRegenerates ==
    /\ KilledBeforeStateWrite
       => /\ stateFile = start.stateFile
          /\ GetOpt(load_json(stateFile), "last_release_id") # frame.release_id
    /\ RerunAfterCrashEnded
       => /\ StoredIdAtStart # frame.release_id
          /\ exit = Some(0)
          /\ outdir = ExpectedOutdir(frame.release, frame.lang_map)
          /\ StateFields(stateFile)
             = ExpectedStateFields(frame.release, frame.lang_map)

\* C8 amended: the same, for a release r whose id the state file does not
\* record when the run dies (a new release, not a forced rebuild of the
\* recorded one): the state file keeps its previous content, the next run
\* against r without --force regenerates and leaves what an uninterrupted run
\* on the same inputs leaves. After a forced rebuild of the recorded release
\* died there, the state file records r already and the next run without
\* --force takes the already-processed path.
C8_CrashOnUnrecordedReleaseRegenerates ==
    /\ KilledBeforeStateWrite => stateFile = start.stateFile
    /\ (RerunAfterCrashEnded /\ StoredIdAtStart # frame.release_id)
       => /\ exit = Some(0)
          /\ outdir = ExpectedOutdir(frame.release, frame.lang_map)
          /\ StateFields(stateFile)
             = ExpectedStateFields(frame.release, frame.lang_map)
    /\ (RerunAfterCrashEnded /\ StoredIdAtStart = frame.release_id)
       => /\ exit = Some(0)
          /\ DiskUntouched

\* C8's case: over a state file recording release 2, a run on release 1 died
\* before its state write; the next run on release 1, without --force and
\* with a map that emits the codes in another order than parse_assets,
\* has regenerated and exited 0.
C8_Witness ==
    /\ RerunAfterCrashEnded
    /\ frame.release = Release1
    /\ frame.lang_map = LangMapB
    /\ StoredIdAtStart = Some(2)
    /\ exit = Some(0)
    /\ stateFile # start.stateFile

\* No run is in progress: none has started yet, or the last one has ended.
AtRest == pc = "idle" \/ exit # None

\* The output directory holds a config.ini rendered from the release the
\* state file records (its version and its codes), under some language map.
ConfigIniMatchesState ==
    /\ outdir.kind = "dir"
    /\ CONFIG_FILENAME \in DOMAIN outdir.entries
    /\ \E lang_map \in {LangMapA, LangMapB} :
          outdir.entries[CONFIG_FILENAME].text
          = render_config_ini(stateFile[1].last_version,
                              stateFile[1].languages, lang_map)[1]

\* C10: between runs, each of which completes or dies between two of its
\* steps on the disk, a state file that records release r comes with an
\* output directory whose config.ini was rendered from r; so the
\* already-processed path always leaves a valid config.ini in place.
C10_RecordedReleaseHasItsConfigIni ==
    (AtRest /\ stateFile # Missing) => ConfigIniMatchesState

====
